---- MODULE Spec2Model ----
(***************************************************************************)
(* FTPClient (src/ftp_client.py): the session pool, the retry decorator,   *)
(* the transfer and metadata operations, the integrity check and the       *)
(* batch runner, as a state machine of threads that each run a call stack. *)
(***************************************************************************)
EXTENDS Integers, Sequences, FiniteSets, TLC

\* ------------------------------------------------------------ bounds
NumThreads == 2
MaxSessions == 3
MaxCapacity == 2
MaxChunks == 2
MaxItems == 2

\* ------------------------------------------------- program constants
\* @retry(stop_max_attempt_number=5, wait_fixed=2000) on _create_connection
CreateStopMaxAttemptNumber == 5
\* @retry(..., stop_max_attempt_number=5) on the retried operations
StopMaxAttemptNumber == 5
\* the number of values of the short digest that stands for an MD5 digest
DigestRange == 7

Threads == 1..NumThreads
Sessions == 1..MaxSessions
NoConn == 0
NoThread == 0

VARIABLES
    max_connections,    \* self.max_connections
    connection_pool,    \* self.connection_pool: a list, the idle sessions
    lock,               \* self.lock: the thread that holds it, or NoThread
    nextSession,        \* the next session the server will accept
    sess,               \* per session: "none", "open", "dropped" (by the server side),
                        \* "discarded" (its NOOP probe failed), "closed" (quit was sent)
    stack,              \* per thread: the frames of the calls in progress, top first
    ret,                \* per thread: what the call that just finished returned or raised
    retry_attempts,     \* self.retry_attempts
    replies,            \* the error replies the server gives to commands in this run
    calls,              \* per thread: invocations of the body of its outermost retried call
    waits,              \* per thread: backoff sleeps of its outermost retried call
    connects,           \* per thread: the connection attempts of its outermost retried
                        \* call so far, while every one of them has failed; Served once
                        \* the call has obtained a session
    files,              \* the local files: per path, whether it exists and its chunks
    remote,             \* the server's files: the content of the remote file, and for a
                        \* move whether its source and its destination directory exist
                        \* and the names in that directory
    futures             \* the futures of the batch under way, in the order of its items

vars == <<max_connections, connection_pool, lock, nextSession, sess, stack, ret,
          retry_attempts, replies, calls, waits, connects, files, remote, futures>>

\* what the steps of the pool, and of an operation's body, leave alone
config == <<max_connections, retry_attempts, replies>>
counters == <<calls, waits, connects>>
world == <<files, remote>>

poolVars == <<connection_pool, lock, nextSession, sess>>

\* ------------------------------------------------------------ frames
\* what a call returns (a session, a truth value) or raises (an exception and,
\* for an exception raised in an except clause, the one it was made from)
NoRet == [kind |-> "none", exc |-> "", cause |-> "", conn |-> NoConn, flag |-> FALSE]
Value(c, b) == [kind |-> "value", exc |-> "", cause |-> "", conn |-> c, flag |-> b]
Raise(e, c) == [kind |-> "raise", exc |-> e, cause |-> c, conn |-> NoConn, flag |-> FALSE]

Frame(fn, pc) ==
    [fn |-> fn, pc |-> pc, op |-> "", conn |-> NoConn, attempt_number |-> 1,
     auto_release |-> TRUE, exc |-> "", cause |-> "", flag |-> FALSE,
     hit |-> FALSE, path |-> "", n |-> 0, noops |-> 0]

Running(t) == stack[t] # <<>>
Top(t) == Head(stack[t])
At(t, fn, pc) == Running(t) /\ Top(t).fn = fn /\ Top(t).pc = pc

\* the top frame becomes f
Goto(t, f) == stack' = [stack EXCEPT ![t] = <<f>> \o Tail(@)]
\* the top frame becomes f and calls g
Call(t, f, g) == stack' = [stack EXCEPT ![t] = <<g, f>> \o Tail(@)]
\* the top frame finishes with r
Return(t, r) ==
    /\ stack' = [stack EXCEPT ![t] = Tail(@)]
    /\ ret' = [ret EXCEPT ![t] = r]
\* the top frame becomes f, having taken what its callee returned
Taken(t, f) ==
    /\ Goto(t, f)
    /\ ret' = [ret EXCEPT ![t] = NoRet]

Range(s) == {s[i] : i \in 1..Len(s)}
Front(s) == SubSeq(s, 1, Len(s) - 1)
Last(s) == s[Len(s)]

\* ------------------------------------------------------ local files
\* the local file of a call, and the "<local_file_path>.temp" of its integrity check
LocalPaths == {"local", "local.temp"}
NoFile == [exists |-> FALSE, data |-> <<>>]
\* the server's side: the content of the remote file of a transfer; for a move,
\* whether its source and its destination directory exist, and the names in that
NoRemote == [data |-> <<>>, src |-> FALSE, dir |-> FALSE, names |-> {}]

\* ------------------------------------------------------- the server
\* A session answers commands while its connection is up.
Alive(s) == sess[s] = "open"

\* the sessions some frame of thread t refers to
Referred(t) == {stack[t][i].conn : i \in 1..Len(stack[t])} \ {NoConn}

\* The server side drops the connection of a session (idle timeout, reset) that
\* is idle in the pool or in some caller's hands.
Drop(s) ==
    /\ Alive(s)
    /\ s \in Range(connection_pool) \cup UNION {Referred(t) : t \in Threads}
    /\ sess' = [sess EXCEPT ![s] = "dropped"]
    /\ UNCHANGED <<config, futures, counters, world, connection_pool, lock, nextSession, stack, ret>>

\* ------------------------------------------- _create_connection (60-79)
\* (mutant) the decorator gives up one attempt early
CreateStopsEarly(attempt_number) == attempt_number >= CreateStopMaxAttemptNumber - 1

\* One attempt of the retried body: connect and login succeed and give a new
\* session, or raise FTPConnectionError; the decorator retries until the
\* attempt number reaches stop_max_attempt_number and then re-raises.
CreateStops(attempt_number) == attempt_number >= CreateStopMaxAttemptNumber

\* the thread's outermost call is a retried operation
InRetried(t) == stack[t][Len(stack[t])].fn = "retry"

\* the call has a session
Served == -1

\* one more failed connection attempt is counted
Attempted(t) ==
    [connects EXCEPT ![t] = IF InRetried(t) /\ @ # Served THEN @ + 1 ELSE @]

\* a session was obtained: the retried call is no longer one that was refused
\* every session
Obtained(t) == [connects EXCEPT ![t] = IF InRetried(t) THEN Served ELSE @]

CreateSucceeds(t) ==
    /\ At(t, "_create_connection", "attempt")
    /\ nextSession <= MaxSessions
    /\ nextSession' = nextSession + 1
    /\ sess' = [sess EXCEPT ![nextSession] = "open"]
    /\ Return(t, Value(nextSession, FALSE))
    /\ connects' = Obtained(t)
    /\ UNCHANGED <<config, futures, calls, waits, world, connection_pool, lock>>

CreateFails(t) ==
    /\ At(t, "_create_connection", "attempt")
    /\ IF CreateStops(Top(t).attempt_number)
         THEN Return(t, Raise("FTPConnectionError", "Exception"))
         ELSE /\ Goto(t, [Top(t) EXCEPT !.attempt_number = @ + 1])
              /\ UNCHANGED ret
    /\ connects' = Attempted(t)
    /\ UNCHANGED <<config, futures, calls, waits, world, poolVars>>

\* --------------------------------------------- _get_connection (82-99)
GetFrame == Frame("_get_connection", "lock")

\* with self.lock:
GetLock(t) ==
    /\ At(t, "_get_connection", "lock")
    /\ lock = NoThread
    /\ lock' = t
    /\ Goto(t, [Top(t) EXCEPT !.pc = "check"])
    /\ UNCHANGED <<config, futures, counters, world, connection_pool, nextSession, sess, ret>>

\* (mutant) the session is read from the list and left in it
PoolAfterPeek(pool) == pool

\* conn = self.connection_pool.pop(): the list that is left
PoolAfterPop(pool) == Front(pool)

\* if len(self.connection_pool) > 0: ... else: return self._create_connection()
GetCheck(t) ==
    /\ At(t, "_get_connection", "check")
    /\ IF Len(connection_pool) > 0
         THEN Goto(t, [Top(t) EXCEPT !.pc = "pop"])
         ELSE Call(t, [Top(t) EXCEPT !.pc = "created"],
                   Frame("_create_connection", "attempt"))
    /\ UNCHANGED <<config, futures, counters, world, poolVars, ret>>

\* conn = self.connection_pool.pop(); list.pop raises IndexError on a list that
\* has been emptied since the test, and the error leaves the with block (which
\* releases the lock)
GetPop(t) ==
    /\ At(t, "_get_connection", "pop")
    /\ IF Len(connection_pool) > 0
         THEN /\ connection_pool' = PoolAfterPop(connection_pool)
              /\ Goto(t, [Top(t) EXCEPT !.pc = "probe", !.conn = Last(connection_pool)])
              /\ connects' = Obtained(t)
              /\ UNCHANGED <<lock, ret>>
         ELSE /\ lock' = NoThread
              /\ Return(t, Raise("IndexError", ""))
              /\ UNCHANGED <<connection_pool, connects>>
    /\ UNCHANGED <<config, futures, calls, waits, world, nextSession, sess>>

\* (mutant) a session whose NOOP raised is handed to the caller all the same
GetProbeKeepsDropped(t) ==
    /\ At(t, "_get_connection", "probe")
    /\ lock' = NoThread
    /\ Return(t, Value(Top(t).conn, FALSE))
    /\ sess' = IF Alive(Top(t).conn) THEN sess
               ELSE [sess EXCEPT ![Top(t).conn] = "discarded"]
    /\ UNCHANGED <<config, futures, counters, world, connection_pool, nextSession>>

\* conn.voidcmd("NOOP"): returns on a live session, and conn is returned; raises
\* on a dropped one, and conn = self._create_connection() replaces it
GetProbe(t) ==
    /\ At(t, "_get_connection", "probe")
    /\ IF Alive(Top(t).conn)
         THEN /\ lock' = NoThread
              /\ Return(t, Value(Top(t).conn, FALSE))
              /\ UNCHANGED sess
         ELSE /\ sess' = [sess EXCEPT ![Top(t).conn] = "discarded"]
              /\ Call(t, [Top(t) EXCEPT !.pc = "created", !.flag = TRUE],
                      Frame("_create_connection", "attempt"))
              /\ UNCHANGED <<lock, ret>>
    /\ UNCHANGED <<config, futures, counters, world, connection_pool, nextSession>>

\* (mutant) the lock is released by hand on the normal path only: an error of
\* _create_connection leaves it held
GetCreatedKeepsLock(t) ==
    /\ At(t, "_get_connection", "created")
    /\ lock' = IF ret[t].kind = "raise" THEN lock ELSE NoThread
    /\ Return(t, ret[t])
    /\ UNCHANGED <<config, futures, counters, world, connection_pool, nextSession, sess>>

\* _create_connection came back: return its session, or let its error leave the
\* with block (which releases the lock)
GetCreated(t) ==
    /\ At(t, "_get_connection", "created")
    /\ lock' = NoThread
    /\ Return(t, ret[t])
    /\ UNCHANGED <<config, futures, counters, world, connection_pool, nextSession, sess>>

\* ----------------------------------------- _release_connection (101-113)
ReleaseFrame(conn, auto_release) ==
    [Frame("_release_connection", "start") EXCEPT !.conn = conn,
                                                  !.auto_release = auto_release]

\* (mutant) the session is let go of, whatever auto_release is
ReleaseStartLetsGo(t) ==
    /\ At(t, "_release_connection", "start")
    /\ Return(t, Value(NoConn, FALSE))
    /\ UNCHANGED <<config, futures, counters, world, poolVars>>

\* if auto_release: ... (otherwise nothing is done with the session)
ReleaseStart(t) ==
    /\ At(t, "_release_connection", "start")
    /\ IF Top(t).auto_release
         THEN Goto(t, [Top(t) EXCEPT !.pc = "lock"]) /\ UNCHANGED ret
         ELSE Return(t, Value(NoConn, FALSE))
    /\ UNCHANGED <<config, futures, counters, world, poolVars>>

\* with self.lock:
ReleaseLock(t) ==
    /\ At(t, "_release_connection", "lock")
    /\ lock = NoThread
    /\ lock' = t
    /\ Goto(t, [Top(t) EXCEPT !.pc = "check"])
    /\ UNCHANGED <<config, futures, counters, world, connection_pool, nextSession, sess, ret>>

\* (mutant) an off-by-one capacity test
PoolHasRoomOffByOne(pool) == Len(pool) <= max_connections

\* len(self.connection_pool) < self.max_connections
PoolHasRoom(pool) == Len(pool) < max_connections

\* if len(self.connection_pool) < self.max_connections: ... else: ...
ReleaseCheck(t) ==
    /\ At(t, "_release_connection", "check")
    /\ Goto(t, [Top(t) EXCEPT
                  !.pc = IF PoolHasRoom(connection_pool) THEN "put" ELSE "quit"])
    /\ UNCHANGED <<config, futures, counters, world, poolVars, ret>>

\* self.connection_pool.append(conn)
ReleasePut(t) ==
    /\ At(t, "_release_connection", "put")
    /\ connection_pool' = Append(connection_pool, Top(t).conn)
    /\ lock' = NoThread
    /\ Return(t, Value(NoConn, FALSE))
    /\ UNCHANGED <<config, futures, counters, world, nextSession, sess>>

\* conn.quit(): closes the session; on a dropped connection it raises, and the
\* error leaves the with block (which releases the lock)
ReleaseQuit(t) ==
    /\ At(t, "_release_connection", "quit")
    /\ sess' = [sess EXCEPT ![Top(t).conn] = "closed"]
    /\ lock' = NoThread
    /\ IF Alive(Top(t).conn)
         THEN Return(t, Value(NoConn, FALSE))
         ELSE Return(t, Raise("EOFError", ""))
    /\ UNCHANGED <<config, futures, counters, world, connection_pool, nextSession>>

\* ------------------------------------------------ ftp_connection (115-121)
\* conn = self._get_connection()
WithEnter(t) ==
    /\ Running(t) /\ Top(t).pc = "with_enter"
    /\ Call(t, [Top(t) EXCEPT !.pc = "with_got"], GetFrame)
    /\ UNCHANGED <<config, futures, counters, world, poolVars, ret>>

\* yield conn, when _get_connection returned one; its error leaves the with
\* statement otherwise
WithGot(t) ==
    /\ Running(t) /\ Top(t).pc = "with_got"
    /\ IF ret[t].kind = "value"
         THEN Taken(t, [Top(t) EXCEPT !.pc = "body", !.conn = ret[t].conn])
         ELSE Taken(t, [Top(t) EXCEPT !.pc = "after_with", !.exc = ret[t].exc,
                                      !.cause = ret[t].cause])
    /\ UNCHANGED <<config, futures, counters, world, poolVars>>

\* (mutant) the with block is left without the release of its finally clause
WithExitSkipsRelease(t) ==
    /\ Running(t) /\ Top(t).pc = "with_exit"
    /\ Goto(t, [Top(t) EXCEPT !.pc = "after_with"])
    /\ UNCHANGED <<config, futures, counters, world, poolVars, ret>>

\* finally: self._release_connection(conn, auto_release)
WithExit(t) ==
    /\ Running(t) /\ Top(t).pc = "with_exit"
    /\ Call(t, [Top(t) EXCEPT !.pc = "with_released"],
            ReleaseFrame(Top(t).conn, Top(t).auto_release))
    /\ UNCHANGED <<config, futures, counters, world, poolVars, ret>>

\* an error of the release replaces the error (or the result) of the body
WithReleased(t) ==
    /\ Running(t) /\ Top(t).pc = "with_released"
    /\ Taken(t, [Top(t) EXCEPT !.pc = "after_with",
                               !.exc = IF ret[t].kind = "raise" THEN ret[t].exc ELSE @,
                               !.cause = IF ret[t].kind = "raise" THEN ret[t].cause ELSE @])
    /\ UNCHANGED <<config, futures, counters, world, poolVars>>

PoolStep(t) ==
    \/ CreateSucceeds(t) \/ CreateFails(t)
    \/ GetLock(t) \/ GetCheck(t) \/ GetPop(t) \/ GetProbe(t) \/ GetCreated(t)
    \/ ReleaseStart(t) \/ ReleaseLock(t) \/ ReleaseCheck(t) \/ ReleasePut(t)
    \/ ReleaseQuit(t)
    \/ WithEnter(t) \/ WithGot(t) \/ WithExit(t) \/ WithReleased(t)

\* the outcomes of one command on a session: an answer, a permanent error (5xx,
\* ftplib.error_perm; "550" is its not-found code), a temporary one (4xx,
\* ftplib.error_temp); a dropped session raises EOFError
ErrorReplies == {"error_perm_550", "error_perm", "error_temp"}
CmdOutcomes(s) == IF Alive(s) THEN {"ok"} \cup replies ELSE {"EOFError"}

ErrorOf(out) == IF out = "ok" THEN "" ELSE out

\* ------------------------- the operations of one command in a with block:
\* change_directory (475-488), rename_file (394-409), delete_file (411-425),
\* create_directory (443-457), remove_directory (459-473)
CommandOps == {"change_directory", "rename_file", "delete_file", "create_directory",
               "remove_directory"}

OpFrame(op, auto_release) ==
    [Frame(op, "with_enter") EXCEPT !.auto_release = auto_release]

\* ftp.cwd(...), ftp.rename(...), ftp.delete(...), ftp.mkd(...), ftp.rmd(...)
CommandBody(t) ==
    /\ Running(t) /\ Top(t).fn \in CommandOps /\ Top(t).pc = "body"
    /\ \E out \in CmdOutcomes(Top(t).conn) :
         /\ Goto(t, [Top(t) EXCEPT !.pc = "with_exit", !.exc = ErrorOf(out)])
         /\ remote' = IF out = "ok" /\ Top(t).fn = "create_directory"
                        THEN [remote EXCEPT !.dir = TRUE] ELSE remote
    /\ UNCHANGED <<config, futures, counters, files, poolVars, ret>>

\* except Exception as e: raise FTPTransferError(...): the try block holds the
\* whole with statement, so errors of the acquire and of the release are caught too
CommandEnd(t) ==
    /\ Running(t) /\ Top(t).fn \in CommandOps /\ Top(t).pc = "after_with"
    /\ IF Top(t).exc = ""
         THEN Return(t, Value(NoConn, FALSE))
         ELSE Return(t, Raise("FTPTransferError", Top(t).exc))
    /\ UNCHANGED <<config, futures, counters, world, poolVars>>

\* --------------------------------------------------- upload_file (203-230)
\* open(local_file_path, 'rb') and ftp.storbinary(...), inside the try block that
\* is inside the with block: except Exception: raise FTPTransferError(...)
UploadBody(t) ==
    /\ At(t, "upload_file", "body")
    /\ \E out \in CmdOutcomes(Top(t).conn) \cup {"FileNotFoundError"} :
         Goto(t, [Top(t) EXCEPT !.pc = "with_exit",
                                !.exc = IF out = "ok" THEN "" ELSE "FTPTransferError",
                                !.cause = ErrorOf(out)])
    /\ UNCHANGED <<config, futures, counters, world, poolVars, ret>>

\* the with statement is outside the try block: an error of the acquire or of the
\* release leaves upload_file as it is
UploadEnd(t) ==
    /\ At(t, "upload_file", "after_with")
    /\ IF Top(t).exc = ""
         THEN Return(t, Value(NoConn, FALSE))
         ELSE Return(t, Raise(Top(t).exc, Top(t).cause))
    /\ UNCHANGED <<config, futures, counters, world, poolVars>>

\* ---------------------------------------------------- list_files (282-303)
\* files = ftp.nlst(remote_path); flag is only_files
ListBody(t) ==
    /\ At(t, "list_files", "body")
    /\ \E out \in CmdOutcomes(Top(t).conn) :
         Goto(t, [Top(t) EXCEPT
                    !.pc = IF out = "ok" /\ Top(t).flag THEN "filter" ELSE "with_exit",
                    !.exc = ErrorOf(out)])
    /\ UNCHANGED <<config, futures, counters, world, poolVars, ret>>

\* if only_files: [f for f in files if not self._is_directory(ftp, f)], with
\* _is_directory (305-319): an error_perm of its cwd answers False, any other
\* error, and any error of its pwd, leaves the comprehension
ListFilter(t) ==
    /\ At(t, "list_files", "filter")
    /\ \E out \in CmdOutcomes(Top(t).conn) :
         Goto(t, [Top(t) EXCEPT !.pc = "with_exit", !.exc = ErrorOf(out)])
    /\ UNCHANGED <<config, futures, counters, world, poolVars, ret>>

\* except ftplib.error_perm as e: return [] on "550", raise FTPTransferError
\* otherwise; any other error leaves list_files as it is
ListEnd(t) ==
    /\ At(t, "list_files", "after_with")
    /\ CASE Top(t).exc \in {"", "error_perm_550"} -> Return(t, Value(NoConn, FALSE))
         [] Top(t).exc = "error_perm" -> Return(t, Raise("FTPTransferError", Top(t).exc))
         [] OTHER -> Return(t, Raise(Top(t).exc, Top(t).cause))
    /\ UNCHANGED <<config, futures, counters, world, poolVars>>

\* ------------------------------------------------------------- @retry
\* retrying.retry(wait_exponential_multiplier=1000, wait_exponential_max=10000,
\* stop_max_attempt_number=5), as it decorates an operation: no retry_on_exception
\* is given, so every exception is retried; the last one is re-raised.
RetryFrame(op, auto_release, flag, path) ==
    [Frame("retry", "call") EXCEPT !.op = op, !.auto_release = auto_release,
                                   !.flag = flag, !.path = path]

\* the wrapper calls the decorated function
RetryCall(t) ==
    /\ At(t, "retry", "call")
    /\ Call(t, [Top(t) EXCEPT !.pc = "returned"],
            [OpFrame(Top(t).op, Top(t).auto_release) EXCEPT !.flag = Top(t).flag,
                                                            !.path = Top(t).path])
    /\ calls' = IF Len(stack[t]) = 1 THEN [calls EXCEPT ![t] = @ + 1] ELSE calls
    /\ UNCHANGED <<config, futures, world, waits, connects, poolVars, ret>>

\* stop_max_attempt_number: stop once the attempt number has reached it
RetryStops(attempt_number) == attempt_number >= StopMaxAttemptNumber

\* retry_on_exception is not given: retrying's default rejects every exception
RetryOnException(exc) == TRUE

\* the decorated function returned or raised: return its value; re-raise its error
\* when it is not retried or the attempts are used up; else sleep and go round
RetryReturned(t) ==
    /\ At(t, "retry", "returned")
    /\ IF ret[t].kind = "value" \/ ~RetryOnException(ret[t].exc)
          \/ RetryStops(Top(t).attempt_number)
         THEN /\ Return(t, ret[t])
              /\ UNCHANGED waits
         ELSE /\ Taken(t, [Top(t) EXCEPT !.pc = "call", !.attempt_number = @ + 1])
              /\ waits' = IF Len(stack[t]) = 1 THEN [waits EXCEPT ![t] = @ + 1] ELSE waits
    /\ UNCHANGED <<config, futures, world, calls, connects, poolVars>>

RetryStep(t) == RetryCall(t) \/ RetryReturned(t)

\* ------------------------------------------------- download_file (233-280)
\* (the second definition of download_file, which replaces the one at 148-194)
\* the remote file's content: chunks 1..n, as retrbinary hands them to its callback
RemoteContents == {[i \in 1..n |-> i] : n \in 0..MaxChunks}

\* (mutant) the file is opened for appending: what it held is kept
DownloadOpenAppends(t) ==
    /\ At(t, "download_file", "body")
    /\ files' = [files EXCEPT ![Top(t).path].exists = TRUE]
    /\ Goto(t, [Top(t) EXCEPT !.pc = "size"])
    /\ UNCHANGED <<config, futures, counters, remote, poolVars, ret>>

\* with open(local_file_path, 'wb') as file: the file is created or truncated
DownloadOpen(t) ==
    /\ At(t, "download_file", "body")
    /\ files' = [files EXCEPT ![Top(t).path] = [exists |-> TRUE, data |-> <<>>]]
    /\ Goto(t, [Top(t) EXCEPT !.pc = "size"])
    /\ UNCHANGED <<config, futures, counters, remote, poolVars, ret>>

\* total_size = ftp.size(remote_file_path)
DownloadSize(t) ==
    /\ At(t, "download_file", "size")
    /\ \E out \in CmdOutcomes(Top(t).conn) :
         Goto(t, [Top(t) EXCEPT !.pc = IF out = "ok" THEN "retr" ELSE "with_exit",
                                !.exc = ErrorOf(out), !.n = 0])
    /\ UNCHANGED <<config, futures, counters, world, poolVars, ret>>

\* the NOOPs that progress_callback sends on the session for the chunk-th chunk:
\* neither callback of this download_file (255-257, 260-263) sends any
KeepAlives(chunk) == 0

\* ftp.retrbinary hands the next chunk to progress_callback. The default one (255-257)
\* writes it and updates the bar. The one made for a caller's callback (260-263)
\* writes it and calls progress_callback(len(data)): that name is the local function
\* itself by then, so it calls itself with an int, and file.write(int) raises TypeError.
DownloadChunk(t) ==
    /\ At(t, "download_file", "retr")
    /\ Alive(Top(t).conn)
    /\ Top(t).n < Len(remote.data)
    /\ files' = [files EXCEPT ![Top(t).path].data = Append(@, remote.data[Top(t).n + 1])]
    /\ IF Top(t).flag
         THEN Goto(t, [Top(t) EXCEPT !.pc = "with_exit", !.exc = "TypeError",
                                     !.noops = @ + KeepAlives(Top(t).n + 1)])
         ELSE Goto(t, [Top(t) EXCEPT !.n = @ + 1,
                                     !.noops = @ + KeepAlives(Top(t).n + 1)])
    /\ UNCHANGED <<config, futures, counters, remote, poolVars, ret>>

\* ftp.retrbinary returns when the stream has ended
DownloadStreamEnds(t) ==
    /\ At(t, "download_file", "retr")
    /\ Alive(Top(t).conn)
    /\ Top(t).n = Len(remote.data)
    /\ Goto(t, [Top(t) EXCEPT !.pc = "check"])
    /\ UNCHANGED <<config, futures, counters, world, poolVars, ret>>

\* ftp.retrbinary raises: the RETR command is refused, or the stream breaks
DownloadStreamFails(t) ==
    /\ At(t, "download_file", "retr")
    /\ \E out \in CmdOutcomes(Top(t).conn) \ {"ok"} :
         Goto(t, [Top(t) EXCEPT !.pc = "with_exit", !.exc = out])
    /\ UNCHANGED <<config, futures, counters, world, poolVars, ret>>

\* (mutant) the size of the downloaded file is not looked at
NeverEmpty(size) == FALSE

\* if local_file_size == 0:
IsEmpty(size) == size = 0

\* local_file_size = os.path.getsize(local_file_path); a file of 0 bytes raises
\* FTPTransferError
DownloadCheck(t) ==
    /\ At(t, "download_file", "check")
    /\ Goto(t, [Top(t) EXCEPT
                  !.pc = "with_exit",
                  !.exc = IF IsEmpty(Len(files[Top(t).path].data))
                            THEN "FTPTransferError" ELSE ""])
    /\ UNCHANGED <<config, futures, counters, world, poolVars, ret>>

\* except ftplib.error_perm / except Exception: raise FTPTransferError(...)
DownloadEnd(t) ==
    /\ At(t, "download_file", "after_with")
    /\ IF Top(t).exc = ""
         THEN Return(t, Value(NoConn, FALSE))
         ELSE Return(t, Raise("FTPTransferError", Top(t).exc))
    /\ UNCHANGED <<config, futures, counters, world, poolVars>>

DownloadStep(t) ==
    \/ DownloadOpen(t) \/ DownloadSize(t) \/ DownloadChunk(t) \/ DownloadStreamEnds(t)
    \/ DownloadStreamFails(t) \/ DownloadCheck(t) \/ DownloadEnd(t)

\* --------------------------------------------------- move_file (336-392)
\* the names of remote files, as os.path.splitext splits them: a base and an extension
FileName == <<"report", ".txt">>
\* datetime.now().strftime("%Y%m%d%H%M%S") at the time of the call
Timestamp == "20240101120000"
\* new_file_name = f"{file_base}_{timestamp}{file_ext}"
NewFileName(file_name, timestamp) ==
    <<file_name[1] \o "_" \o timestamp, file_name[2]>>

\* the name datetime in the module: from datetime import datetime (line 1) binds it
\* to the class, not to the module
DatetimeName == "class datetime.datetime"
\* the attributes that are looked up on either
Attributes(object) ==
    IF object = "module datetime" THEN {"datetime", "date", "timedelta"}
    ELSE {"now", "strftime"}

\* the answers of a command that the server can only carry out when possible holds
Answers(s, possible) ==
    IF Alive(s) /\ ~possible THEN (CmdOutcomes(s) \ {"ok"}) \cup {"error_perm_550"}
    ELSE CmdOutcomes(s)

\* directory_exists (321-334): ftp.cwd(remote_path); return True
DirectoryExistsBody(t) ==
    /\ At(t, "directory_exists", "body")
    /\ \E out \in Answers(Top(t).conn, remote.dir) :
         Goto(t, [Top(t) EXCEPT !.pc = "with_exit", !.exc = ErrorOf(out)])
    /\ UNCHANGED <<config, futures, counters, world, poolVars, ret>>

\* except ftplib.error_perm: return False; any other error leaves directory_exists
DirectoryExistsEnd(t) ==
    /\ At(t, "directory_exists", "after_with")
    /\ CASE Top(t).exc = "" -> Return(t, Value(NoConn, TRUE))
         [] Top(t).exc \in {"error_perm", "error_perm_550"} ->
              Return(t, Value(NoConn, FALSE))
         [] OTHER -> Return(t, Raise(Top(t).exc, Top(t).cause))
    /\ UNCHANGED <<config, futures, counters, world, poolVars>>

\* check_file_exists (427-441): files = ftp.nlst(dirname); return basename in files
CheckFileExistsBody(t) ==
    /\ At(t, "check_file_exists", "body")
    /\ \E out \in Answers(Top(t).conn, remote.dir) :
         Goto(t, [Top(t) EXCEPT !.pc = "with_exit", !.exc = ErrorOf(out),
                                !.hit = out = "ok" /\ FileName \in remote.names])
    /\ UNCHANGED <<config, futures, counters, world, poolVars, ret>>

\* except Exception: return False
CheckFileExistsEnd(t) ==
    /\ At(t, "check_file_exists", "after_with")
    /\ Return(t, Value(NoConn, Top(t).exc = "" /\ Top(t).hit))
    /\ UNCHANGED <<config, futures, counters, world, poolVars>>

\* if not self.directory_exists(dest_remote_directory, auto_release=False):
MoveBody(t) ==
    /\ At(t, "move_file", "body")
    /\ Call(t, [Top(t) EXCEPT !.pc = "dir_checked"], OpFrame("directory_exists", FALSE))
    /\ UNCHANGED <<config, futures, counters, world, poolVars, ret>>

\* self.create_directory(dest_remote_directory, auto_release=False)
MoveDirChecked(t) ==
    /\ At(t, "move_file", "dir_checked")
    /\ CASE ret[t].kind = "raise" ->
              Goto(t, [Top(t) EXCEPT !.pc = "with_exit", !.exc = ret[t].exc,
                                     !.cause = ret[t].cause])
         [] ret[t].kind = "value" /\ ret[t].flag ->
              Goto(t, [Top(t) EXCEPT !.pc = "check_dest"])
         [] OTHER ->
              Call(t, [Top(t) EXCEPT !.pc = "dir_created"],
                   RetryFrame("create_directory", FALSE, FALSE, ""))
    /\ ret' = [ret EXCEPT ![t] = NoRet]
    /\ UNCHANGED <<config, futures, counters, world, poolVars>>

MoveDirCreated(t) ==
    /\ At(t, "move_file", "dir_created")
    /\ IF ret[t].kind = "raise"
         THEN Taken(t, [Top(t) EXCEPT !.pc = "with_exit", !.exc = ret[t].exc,
                                      !.cause = ret[t].cause])
         ELSE Taken(t, [Top(t) EXCEPT !.pc = "check_dest"])
    /\ UNCHANGED <<config, futures, counters, world, poolVars>>

\* dest_exists = self.check_file_exists(dest_remote_path, auto_release=False)
MoveCheckDest(t) ==
    /\ At(t, "move_file", "check_dest")
    /\ Call(t, [Top(t) EXCEPT !.pc = "dest_checked"], OpFrame("check_file_exists", FALSE))
    /\ UNCHANGED <<config, futures, counters, world, poolVars, ret>>

\* if dest_exists: if overwrite: ... else: ...; flag is overwrite, hit is dest_exists,
\* n is 1 once dest_remote_path has the new file name
MoveDestChecked(t) ==
    /\ At(t, "move_file", "dest_checked")
    /\ Taken(t, [Top(t) EXCEPT
                   !.hit = ret[t].flag,
                   !.pc = CASE ret[t].flag /\ Top(t).flag -> "delete"
                            [] ret[t].flag /\ ~Top(t).flag -> "timestamp"
                            [] OTHER -> "rename"])
    /\ UNCHANGED <<config, futures, counters, world, poolVars>>

\* ftp.delete(dest_remote_path); except ftplib.error_perm: raise FTPTransferError
MoveDelete(t) ==
    /\ At(t, "move_file", "delete")
    /\ \E out \in Answers(Top(t).conn, FileName \in remote.names) :
         /\ Goto(t, [Top(t) EXCEPT
                       !.pc = IF out = "ok" THEN "rename" ELSE "with_exit",
                       !.exc = IF out \in {"error_perm", "error_perm_550"}
                                 THEN "FTPTransferError" ELSE ErrorOf(out),
                       !.cause = ErrorOf(out)])
         /\ remote' = IF out = "ok" THEN [remote EXCEPT !.names = @ \ {FileName}]
                      ELSE remote
    /\ UNCHANGED <<config, futures, counters, files, poolVars, ret>>

\* timestamp = datetime.datetime.now().strftime(...): the attribute datetime is
\* looked up on what the name datetime is bound to, and AttributeError is raised
\* when it has none
MoveTimestamp(t) ==
    /\ At(t, "move_file", "timestamp")
    /\ IF "datetime" \in Attributes(DatetimeName)
         THEN Goto(t, [Top(t) EXCEPT !.pc = "rename", !.n = 1])
         ELSE Goto(t, [Top(t) EXCEPT !.pc = "with_exit", !.exc = "AttributeError"])
    /\ UNCHANGED <<config, futures, counters, world, poolVars, ret>>

DestName(n) == IF n = 1 THEN NewFileName(FileName, Timestamp) ELSE FileName

\* ftp.rename(src_remote_path, dest_remote_path)
MoveRename(t) ==
    /\ At(t, "move_file", "rename")
    /\ \E out \in Answers(Top(t).conn, remote.src /\ remote.dir) :
         /\ Goto(t, [Top(t) EXCEPT !.pc = "with_exit", !.exc = ErrorOf(out)])
         /\ remote' = IF out = "ok"
                        THEN [remote EXCEPT !.src = FALSE,
                                            !.names = @ \cup {DestName(Top(t).n)}]
                        ELSE remote
    /\ UNCHANGED <<config, futures, counters, files, poolVars, ret>>

\* except ftplib.error_perm / except Exception: raise FTPTransferError(...)
MoveEnd(t) ==
    /\ At(t, "move_file", "after_with")
    /\ IF Top(t).exc = ""
         THEN Return(t, Value(NoConn, FALSE))
         ELSE Return(t, Raise("FTPTransferError", Top(t).exc))
    /\ UNCHANGED <<config, futures, counters, world, poolVars>>

MoveStep(t) ==
    \/ DirectoryExistsBody(t) \/ DirectoryExistsEnd(t)
    \/ CheckFileExistsBody(t) \/ CheckFileExistsEnd(t)
    \/ MoveBody(t) \/ MoveDirChecked(t) \/ MoveDirCreated(t) \/ MoveCheckDest(t)
    \/ MoveDestChecked(t) \/ MoveDelete(t) \/ MoveTimestamp(t) \/ MoveRename(t)
    \/ MoveEnd(t)

\* ---------------------------------------- verify_file_integrity (503-537)
\* hashlib.md5 of a file's content (calculate_md5, 490-501), as a short digest
RECURSIVE Digest(_)
Digest(data) ==
    IF data = <<>> THEN 1 ELSE (3 * Digest(Front(data)) + Last(data)) % DigestRange

\* remote_file_path_temp = f"{local_file_path}.temp"
TempPath(path) == path \o ".temp"

\* local_size = os.path.getsize(...); remote_size = ftp.size(...); a mismatch raises
\* FTPTransferError inside the inner try block, whose except Exception catches it,
\* as it catches an error of ftp.size
VerifySizes(t) ==
    /\ At(t, "verify_file_integrity", "body")
    /\ \E out \in CmdOutcomes(Top(t).conn) :
         LET differ == out = "ok" /\ Len(files[Top(t).path].data) # Len(remote.data) IN
         Goto(t, [Top(t) EXCEPT
                    !.pc = IF out = "ok" /\ ~differ THEN "site_md5" ELSE "fallback",
                    !.flag = differ])
    /\ UNCHANGED <<config, futures, counters, world, poolVars, ret>>

\* remote_checksum = ftp.sendcmd('SITE MD5 ...').split(' ')[1]; except Exception:
VerifySiteMd5(t) ==
    /\ At(t, "verify_file_integrity", "site_md5")
    /\ \E out \in CmdOutcomes(Top(t).conn) :
         Goto(t, [Top(t) EXCEPT !.pc = IF out = "ok" THEN "compare" ELSE "fallback",
                                !.n = Digest(remote.data)])
    /\ UNCHANGED <<config, futures, counters, world, poolVars, ret>>

\* except Exception: self.download_file(remote_file_path, remote_file_path_temp)
VerifyFallback(t) ==
    /\ At(t, "verify_file_integrity", "fallback")
    /\ Call(t, [Top(t) EXCEPT !.pc = "downloaded", !.hit = TRUE],
            RetryFrame("download_file", TRUE, FALSE, TempPath(Top(t).path)))
    /\ UNCHANGED <<config, futures, counters, world, poolVars, ret>>

\* remote_checksum = self.calculate_md5(temp); os.remove(temp), when download_file
\* returned; its error leaves the except clause otherwise
VerifyDownloaded(t) ==
    /\ At(t, "verify_file_integrity", "downloaded")
    /\ IF ret[t].kind = "raise"
         THEN /\ Taken(t, [Top(t) EXCEPT !.pc = "with_exit", !.exc = ret[t].exc,
                                         !.cause = ret[t].cause])
              /\ UNCHANGED files
         ELSE /\ Taken(t, [Top(t) EXCEPT !.pc = "compare",
                                         !.n = Digest(files[TempPath(Top(t).path)].data)])
              /\ files' = [files EXCEPT ![TempPath(Top(t).path)] = NoFile]
    /\ UNCHANGED <<config, futures, counters, remote, poolVars>>

\* if local_checksum != remote_checksum: raise FTPTransferError(...)
VerifyCompare(t) ==
    /\ At(t, "verify_file_integrity", "compare")
    /\ Goto(t, [Top(t) EXCEPT
                  !.pc = "with_exit",
                  !.exc = IF Digest(files[Top(t).path].data) # Top(t).n
                            THEN "FTPTransferError" ELSE ""])
    /\ UNCHANGED <<config, futures, counters, world, poolVars, ret>>

\* except Exception as e: raise FTPTransferError(...)
VerifyEnd(t) ==
    /\ At(t, "verify_file_integrity", "after_with")
    /\ IF Top(t).exc = ""
         THEN Return(t, Value(NoConn, FALSE))
         ELSE Return(t, Raise("FTPTransferError", Top(t).exc))
    /\ UNCHANGED <<config, futures, counters, world, poolVars>>

VerifyStep(t) ==
    \/ VerifySizes(t) \/ VerifySiteMd5(t) \/ VerifyFallback(t) \/ VerifyDownloaded(t)
    \/ VerifyCompare(t) \/ VerifyEnd(t)

\* --------------------------------------------------------- the client
MainThread == 1

\* the values of the constructor's retry_attempts that are tried: its default and
\* another one
RetryAttemptsTried == {3, 5}

\* FTPClient.__init__ (27-54): an empty pool, a free lock; no call has been made
Constructed ==
    /\ calls = [t \in Threads |-> 0] /\ waits = [t \in Threads |-> 0]
    /\ connects = [t \in Threads |-> 0]
    /\ connection_pool = <<>>
    /\ lock = NoThread
    /\ nextSession = 1
    /\ sess = [s \in Sessions |-> "none"]
    /\ stack = [t \in Threads |-> <<>>]
    /\ ret = [t \in Threads |-> NoRet]
    /\ files = [p \in LocalPaths |-> NoFile]
    /\ remote = NoRemote
    /\ futures = <<>>

\* max_connections is not validated: with 0 the pool never keeps a session
InitClient ==
    /\ max_connections \in 0..MaxCapacity
    /\ retry_attempts \in RetryAttemptsTried
    /\ replies = ErrorReplies
    /\ Constructed

\* a caller's thread calls change_directory
CallChangeDirectory(t) ==
    /\ ~Running(t)
    /\ \E ar \in BOOLEAN :
         stack' = [stack EXCEPT ![t] = <<OpFrame("change_directory", ar)>>]
    /\ ret' = [ret EXCEPT ![t] = NoRet]
    /\ UNCHANGED <<config, futures, counters, world, poolVars>>

\* ------------------------------------------------------ the session pool
\* threads that acquire a session, use it and release it, over and over
InitPool ==
    /\ max_connections \in 1..MaxCapacity
    /\ retry_attempts = StopMaxAttemptNumber
    /\ replies = {"error_temp"}
    /\ Constructed

NextPool ==
    \/ \E t \in Threads : PoolStep(t)
    \/ \E t \in Threads : CallChangeDirectory(t) \/ CommandBody(t) \/ CommandEnd(t)
    \/ \E s \in Sessions : Drop(s)

SpecPool == InitPool /\ [][NextPool]_vars

\* --------------------------------------------- the retried operations
RetriedCommandOps == CommandOps \ {"change_directory"}

\* the main thread calls a retried operation; flag is only_files for list_files
CallRetried(t) ==
    /\ t = MainThread /\ ~Running(t)
    /\ \E op \in RetriedCommandOps \cup {"upload_file", "list_files"},
          ar \in BOOLEAN, flag \in BOOLEAN :
         /\ flag => op = "list_files"
         /\ stack' = [stack EXCEPT ![t] = <<RetryFrame(op, ar, flag, "local")>>]
    /\ remote' = NoRemote
    /\ ret' = [ret EXCEPT ![t] = NoRet]
    /\ calls' = [calls EXCEPT ![t] = 0]
    /\ waits' = [waits EXCEPT ![t] = 0]
    /\ connects' = [connects EXCEPT ![t] = 0]
    /\ UNCHANGED <<config, futures, files, poolVars>>

\* the main thread calls move_file on a remote file, with a destination directory
\* that exists or not, and holds a file of its name or not; flag is overwrite
CallMove(t) ==
    /\ t = MainThread /\ ~Running(t)
    /\ \E ar \in BOOLEAN, overwrite \in BOOLEAN :
         stack' = [stack EXCEPT ![t] = <<RetryFrame("move_file", ar, overwrite, "")>>]
    /\ \E dir \in BOOLEAN, names \in {{}, {FileName}} :
         /\ names # {} => dir
         /\ remote' = [NoRemote EXCEPT !.src = TRUE, !.dir = dir, !.names = names]
    /\ ret' = [ret EXCEPT ![t] = NoRet]
    /\ calls' = [calls EXCEPT ![t] = 0]
    /\ waits' = [waits EXCEPT ![t] = 0]
    /\ connects' = [connects EXCEPT ![t] = 0]
    /\ UNCHANGED <<config, futures, files, poolVars>>

\* the main thread calls download_file on some remote file; flag is whether it
\* passes a progress_callback
CallDownload(t) ==
    /\ t = MainThread /\ ~Running(t)
    /\ \E ar \in BOOLEAN, flag \in BOOLEAN :
         stack' = [stack EXCEPT ![t] = <<RetryFrame("download_file", ar, flag, "local")>>]
    /\ \E d \in RemoteContents : remote' = [NoRemote EXCEPT !.data = d]
    /\ files' = [p \in LocalPaths |-> NoFile]
    /\ ret' = [ret EXCEPT ![t] = NoRet]
    /\ calls' = [calls EXCEPT ![t] = 0]
    /\ waits' = [waits EXCEPT ![t] = 0]
    /\ connects' = [connects EXCEPT ![t] = 0]
    /\ UNCHANGED <<config, futures, poolVars>>

\* the local files that are checked against a remote file: one chunk, which is the
\* remote file, or differs from it with its size, or differs from it in size
LocalContents == {<<1>>, <<2>>}

\* the main thread calls verify_file_integrity on a local and a remote file
CallVerify(t) ==
    /\ t = MainThread /\ ~Running(t)
    /\ \E ar \in BOOLEAN :
         stack' = [stack EXCEPT ![t] =
                     <<[OpFrame("verify_file_integrity", ar) EXCEPT !.path = "local"]>>]
    /\ \E d \in RemoteContents : remote' = [NoRemote EXCEPT !.data = d]
    /\ \E d \in LocalContents :
         files' = [p \in LocalPaths |->
                     IF p = "local" THEN [exists |-> TRUE, data |-> d] ELSE NoFile]
    /\ ret' = [ret EXCEPT ![t] = NoRet]
    /\ calls' = [calls EXCEPT ![t] = 0]
    /\ waits' = [waits EXCEPT ![t] = 0]
    /\ connects' = [connects EXCEPT ![t] = 0]
    /\ UNCHANGED <<config, futures, poolVars>>

\* ------------------------------------------------ the file transfers
\* download_file and verify_file_integrity against a server that refuses commands
InitFiles ==
    /\ max_connections \in 1..MaxCapacity
    /\ retry_attempts = StopMaxAttemptNumber
    /\ replies = {"error_perm"}
    /\ Constructed

NextFiles ==
    \/ \E t \in Threads : PoolStep(t)
    \/ \E t \in Threads : RetryStep(t)
    \/ \E t \in Threads : CallDownload(t) \/ CallVerify(t)
    \/ \E t \in Threads : DownloadStep(t)
    \/ \E t \in Threads : VerifyStep(t)
    \/ \E s \in Sessions : Drop(s)

SpecFiles == InitFiles /\ [][NextFiles]_vars

\* ------------------------------------------------------- connect (123-128)
CallConnect(t) ==
    /\ t = MainThread /\ ~Running(t)
    /\ stack' = [stack EXCEPT ![t] = <<Frame("connect", "loop")>>]
    /\ ret' = [ret EXCEPT ![t] = NoRet]
    /\ UNCHANGED <<config, futures, counters, world, poolVars>>

\* for _ in range(self.max_connections): ... self._create_connection()
ConnectLoop(t) ==
    /\ At(t, "connect", "loop")
    /\ IF Top(t).n < max_connections
         THEN /\ Call(t, [Top(t) EXCEPT !.pc = "created"],
                      Frame("_create_connection", "attempt"))
              /\ UNCHANGED ret
         ELSE Return(t, Value(NoConn, FALSE))
    /\ UNCHANGED <<config, futures, counters, world, poolVars>>

\* self.connection_pool.append(...), without the lock and without a look at the
\* length of the pool; an error of _create_connection leaves connect
ConnectCreated(t) ==
    /\ At(t, "connect", "created")
    /\ IF ret[t].kind = "raise"
         THEN /\ Return(t, ret[t])
              /\ UNCHANGED connection_pool
         ELSE /\ Taken(t, [Top(t) EXCEPT !.pc = "loop", !.n = @ + 1])
              /\ connection_pool' = Append(connection_pool, ret[t].conn)
    /\ UNCHANGED <<config, futures, counters, world, lock, nextSession, sess>>

ConnectStep(t) == ConnectLoop(t) \/ ConnectCreated(t)

\* ------------------- parallel_upload (539-551), parallel_download (553-565)
BatchOps == {"parallel_upload", "parallel_download"}
ItemOp(batch) == IF batch = "parallel_upload" THEN "upload_file" ELSE "download_file"

\* a future of executor.submit: pending in the work queue, running on a worker,
\* or done with what the call returned or raised; logged once logger.error has
\* reported its error
Future(state, worker, result, logged) ==
    [state |-> state, worker |-> worker, result |-> result, logged |-> logged]

\* ThreadPoolExecutor(max_workers=self.max_connections): the threads that it starts
Workers == {t \in Threads \ {MainThread} : t - 1 <= max_connections}

\* with ThreadPoolExecutor(...) as executor: futures = [executor.submit(...) ...];
\* ThreadPoolExecutor raises ValueError when max_workers is not positive
CallBatch(t) ==
    /\ t = MainThread /\ ~Running(t)
    /\ \E op \in BatchOps, k \in 1..MaxItems :
         IF max_connections <= 0
           THEN /\ ret' = [ret EXCEPT ![t] = Raise("ValueError", "")]
                /\ UNCHANGED <<stack, futures>>
           ELSE /\ stack' = [stack EXCEPT ![t] = <<[Frame(op, "result") EXCEPT !.n = 1]>>]
                /\ futures' = [i \in 1..k |-> Future("pending", NoThread, NoRet, FALSE)]
                /\ ret' = [ret EXCEPT ![t] = NoRet]
    /\ \E d \in RemoteContents : remote' = [NoRemote EXCEPT !.data = d]
    /\ files' = [p \in LocalPaths |-> NoFile]
    /\ UNCHANGED <<config, counters, poolVars>>

\* the batch that is under way
Batch == Top(MainThread).fn

\* a worker takes the first pending item of the work queue and calls the operation
WorkerTakes(w) ==
    /\ w \in Workers /\ ~Running(w)
    /\ Running(MainThread) /\ Batch \in BatchOps
    /\ \A i \in 1..Len(futures) : futures[i].worker # w \/ futures[i].state = "done"
    /\ \E i \in 1..Len(futures) :
         /\ futures[i].state = "pending"
         /\ \A j \in 1..(i - 1) : futures[j].state # "pending"
         /\ futures' = [futures EXCEPT ![i] = Future("running", w, NoRet, FALSE)]
    /\ stack' = [stack EXCEPT ![w] = <<RetryFrame(ItemOp(Batch), TRUE, FALSE, "local")>>]
    /\ ret' = [ret EXCEPT ![w] = NoRet]
    /\ calls' = [calls EXCEPT ![w] = 0]
    /\ waits' = [waits EXCEPT ![w] = 0]
    /\ connects' = [connects EXCEPT ![w] = 0]
    /\ UNCHANGED <<config, world, poolVars>>

\* the call has returned or raised on the worker: the future holds its result
WorkerDone(w) ==
    /\ w \in Workers /\ ~Running(w)
    /\ \E i \in 1..Len(futures) :
         /\ futures[i].state = "running" /\ futures[i].worker = w
         /\ futures' = [futures EXCEPT ![i] = Future("done", w, ret[w], FALSE)]
    /\ ret' = [ret EXCEPT ![w] = NoRet]
    /\ UNCHANGED <<config, counters, world, poolVars, stack>>

\* except FTPTransferError as e: the only exception of future.result() that the
\* loop catches
BatchCatches(exc) == exc = "FTPTransferError"

\* for future in futures: future.result() waits for the future and returns or
\* raises what the call did; a caught error is logged, any other leaves the loop
BatchResult(t) ==
    /\ Running(t) /\ Top(t).fn \in BatchOps /\ Top(t).pc = "result"
    /\ IF Top(t).n > Len(futures)
         THEN /\ Goto(t, [Top(t) EXCEPT !.pc = "shutdown"])
              /\ UNCHANGED futures
         ELSE /\ futures[Top(t).n].state = "done"
              /\ LET r == futures[Top(t).n].result IN
                 CASE r.kind = "value" ->
                        /\ Goto(t, [Top(t) EXCEPT !.n = @ + 1])
                        /\ UNCHANGED futures
                   [] r.kind = "raise" /\ BatchCatches(r.exc) ->
                        /\ Goto(t, [Top(t) EXCEPT !.n = @ + 1])
                        /\ futures' = [futures EXCEPT ![Top(t).n].logged = TRUE]
                   [] OTHER ->
                        /\ Goto(t, [Top(t) EXCEPT !.pc = "shutdown", !.exc = r.exc,
                                                  !.cause = r.cause])
                        /\ UNCHANGED futures
    /\ UNCHANGED <<config, counters, world, poolVars, ret>>

\* (mutant) the executor is left without waiting for its calls
ShutdownDoesNotWait(fs) == TRUE

\* executor.shutdown(wait=True), the __exit__ of the executor: its condition to
\* return
ShutdownWaits(fs) == \A i \in 1..Len(fs) : fs[i].state = "done"

\* the end of the with block: executor.shutdown(wait=True) waits for every
\* submitted call; then the batch returns, or raises what left the loop
BatchShutdown(t) ==
    /\ Running(t) /\ Top(t).fn \in BatchOps /\ Top(t).pc = "shutdown"
    /\ ShutdownWaits(futures)
    /\ IF Top(t).exc = ""
         THEN Return(t, Value(NoConn, FALSE))
         ELSE Return(t, Raise(Top(t).exc, Top(t).cause))
    /\ UNCHANGED <<config, futures, counters, world, poolVars>>

BatchStep(t) == WorkerTakes(t) \/ WorkerDone(t) \/ BatchResult(t) \/ BatchShutdown(t)

\* ---------------------------------------------------- disconnect (130-145)
CallDisconnect(t) ==
    /\ t = MainThread /\ ~Running(t)
    /\ stack' = [stack EXCEPT ![t] = <<Frame("disconnect", "loop")>>]
    /\ ret' = [ret EXCEPT ![t] = NoRet]
    /\ UNCHANGED <<config, futures, counters, world, poolVars>>

\* while self.connection_pool:
DisconnectLoop(t) ==
    /\ At(t, "disconnect", "loop")
    /\ IF Len(connection_pool) > 0
         THEN Goto(t, [Top(t) EXCEPT !.pc = "pop"]) /\ UNCHANGED ret
         ELSE Return(t, Value(NoConn, FALSE))
    /\ UNCHANGED <<config, futures, counters, world, poolVars>>

\* conn = self.connection_pool.pop(), without the lock; IndexError on a list that
\* has been emptied since the test leaves disconnect
DisconnectPop(t) ==
    /\ At(t, "disconnect", "pop")
    /\ IF Len(connection_pool) > 0
         THEN /\ connection_pool' = PoolAfterPop(connection_pool)
              /\ Goto(t, [Top(t) EXCEPT !.pc = "quit", !.conn = Last(connection_pool)])
              /\ UNCHANGED ret
         ELSE /\ Return(t, Raise("IndexError", ""))
              /\ UNCHANGED connection_pool
    /\ UNCHANGED <<config, futures, counters, world, lock, nextSession, sess>>

\* conn.quit(); every exception of it is caught and logged
DisconnectQuit(t) ==
    /\ At(t, "disconnect", "quit")
    /\ sess' = [sess EXCEPT ![Top(t).conn] = "closed"]
    /\ Goto(t, [Top(t) EXCEPT !.pc = "loop", !.conn = NoConn])
    /\ UNCHANGED <<config, futures, counters, world, connection_pool, lock, nextSession, ret>>

DisconnectStep(t) == DisconnectLoop(t) \/ DisconnectPop(t) \/ DisconnectQuit(t)

\* ---------------------------------------------------- warming the pool
\* the main thread warms the pool and empties it, while the other threads
\* acquire sessions, use them and release them
InitWarm ==
    /\ max_connections \in 1..MaxCapacity
    /\ retry_attempts = StopMaxAttemptNumber
    /\ replies = {"error_temp"}
    /\ Constructed

NextWarm ==
    \/ \E t \in Threads : PoolStep(t)
    \/ \E t \in Threads : CallConnect(t) \/ ConnectStep(t)
    \/ \E t \in Threads : CallDisconnect(t) \/ DisconnectStep(t)
    \/ \E t \in Threads \ {MainThread} : CallChangeDirectory(t)
    \/ \E t \in Threads : CommandBody(t) \/ CommandEnd(t)
    \/ \E s \in Sessions : Drop(s)

SpecWarm == InitWarm /\ [][NextWarm]_vars

\* ------------------------------------------------------ the batches
\* connect, parallel_upload and parallel_download, with the executor's workers,
\* against a server that refuses logins and commands but keeps its sessions open
InitBatch ==
    /\ max_connections \in 0..MaxCapacity
    /\ retry_attempts = StopMaxAttemptNumber
    /\ replies = {"error_temp"}
    /\ Constructed

NextBatch ==
    \/ \E t \in Threads : PoolStep(t)
    \/ \E t \in Threads : RetryStep(t)
    \/ \E t \in Threads : CallConnect(t) \/ ConnectStep(t)
    \/ \E t \in Threads : CallBatch(t)
    \/ \E t \in Threads : BatchStep(t)
    \/ \E t \in Threads : UploadBody(t) \/ UploadEnd(t)
    \/ \E t \in Threads : DownloadStep(t)

SpecBatch == InitBatch /\ [][NextBatch]_vars

\* ------------------------------------------------------ the moves
\* move_file against a server that may answer a command with a temporary error
InitMove ==
    /\ max_connections \in 0..MaxCapacity
    /\ retry_attempts = StopMaxAttemptNumber
    /\ replies = {"error_temp"}
    /\ Constructed

NextMove ==
    \/ \E t \in Threads : PoolStep(t)
    \/ \E t \in Threads : RetryStep(t)
    \/ \E t \in Threads : CallMove(t)
    \/ \E t \in Threads : CommandBody(t) \/ CommandEnd(t)
    \/ \E t \in Threads : MoveStep(t)
    \/ \E s \in Sessions : Drop(s)

SpecMove == InitMove /\ [][NextMove]_vars

NextOps ==
    \/ \E t \in Threads : PoolStep(t)
    \/ \E t \in Threads : RetryStep(t)
    \/ \E t \in Threads : CallRetried(t)
    \/ \E t \in Threads : CommandBody(t) \/ CommandEnd(t)
    \/ \E t \in Threads : UploadBody(t) \/ UploadEnd(t)
    \/ \E t \in Threads : ListBody(t) \/ ListFilter(t) \/ ListEnd(t)
    \/ \E s \in Sessions : Drop(s)

SpecOps == InitClient /\ [][NextOps]_vars

\* ------------------------------------------------------------ ownership
PoolFns == {"_create_connection", "_get_connection", "_release_connection"}
OutsideWith == {"with_enter", "with_got", "with_released", "after_with"}

\* frame i of thread t has session s checked out: _get_connection between its pop
\* and its return, or an operation between the yield of ftp_connection and the
\* end of the release in its finally clause
Owns(t, i, s) ==
    LET f == stack[t][i] IN
    /\ f.conn = s
    /\ \/ f.fn = "_get_connection" /\ f.pc = "probe"
       \/ f.fn \notin PoolFns /\ f.pc \notin OutsideWith
       \/ /\ f.fn \notin PoolFns /\ f.pc = "with_released"
          /\ i > 1 /\ stack[t][i - 1].fn = "_release_connection"

\* the owners of session s; <<t, 0>> is thread t being handed s by a return
Owners(s) ==
    {<<t, 0>> : t \in {u \in Threads : ret[u].kind = "value" /\ ret[u].conn = s}}
    \cup UNION {{<<t, i>> : i \in {j \in 1..Len(stack[t]) : Owns(t, j, s)}} : t \in Threads}

\* ------------------------------------------------------------------ C1
\* C1: under every interleaving of _get_connection and _release_connection by
\* concurrent threads, the number of sessions in connection_pool never exceeds
\* max_connections.
C1_PoolWithinCapacity == Len(connection_pool) <= max_connections

\* a release finds the pool full and goes on to close its session
C1_Witness ==
    \E t \in Threads : /\ At(t, "_release_connection", "quit")
                       /\ Len(connection_pool) = max_connections

\* ------------------------------------------------------------------ C2
\* C2: no session is checked out by two callers at once, none is both idle in the
\* pool and checked out, and none is in the pool twice.
C2_ExclusiveOwnership ==
    /\ \A s \in Sessions : Cardinality(Owners(s)) <= 1
    /\ \A s \in Range(connection_pool) : Owners(s) = {}
    /\ Cardinality(Range(connection_pool)) = Len(connection_pool)

\* one thread is in its with block with a session while another thread, holding
\* a later session of its own, is about to put that one back into the pool
C2_Witness ==
    \E t, u \in Threads :
        /\ t # u /\ Running(t) /\ Top(t).pc = "body"
        /\ At(u, "_release_connection", "put")
        /\ Top(t).conn # Top(u).conn
        /\ Top(t).conn < nextSession - 1

\* ------------------------------------------------------------------ C3
\* C3: when the NOOP probe of a popped session fails, _get_connection returns a
\* session created in that call; the failed session is never in the pool and
\* never in a caller's hands again; and _get_connection raises nothing but the
\* FTPConnectionError of a failed creation.
C3_ProbeFailureReplaces ==
    /\ \A s \in Sessions : sess[s] = "discarded" =>
            s \notin Range(connection_pool) /\ Owners(s) = {}
    /\ \A t \in Threads :
         /\ (At(t, "_get_connection", "created") /\ Top(t).flag /\ ret[t].kind = "value")
                => (ret[t].conn = nextSession - 1 /\ ret[t].conn # Top(t).conn)
         /\ (Running(t) /\ Top(t).pc = "with_got" /\ ret[t].kind = "raise")
                => ret[t].exc = "FTPConnectionError"

\* the probe of a popped session failed and its replacement is being returned
C3_Witness ==
    \E t \in Threads :
        /\ At(t, "_get_connection", "created") /\ Top(t).flag /\ ret[t].kind = "value"
        /\ sess[Top(t).conn] = "discarded"

\* ------------------------------------------------------------------ C4
\* the main thread's retried call has ended by raising
RaisedToCaller(t) == ~Running(t) /\ ret[t].kind = "raise"

\* C4: a retried operation whose body raises on every invocation has invoked it
\* exactly retry_attempts times (the constructor's argument) when its error
\* reaches the caller.
C4_ConfiguredAttempts ==
    RaisedToCaller(MainThread) => calls[MainThread] = retry_attempts

\* ------------------------------------------------------------------ C5
\* the errors ftplib calls permanent (5xx replies)
Permanent == {"error_perm", "error_perm_550"}

\* the body of the main thread's retried call has just raised an error that is, or
\* was made from, a permanent one
FatalPending(t) ==
    /\ At(t, "retry", "returned") /\ Len(stack[t]) = 1
    /\ ret[t].kind = "raise"
    /\ ret[t].exc \in Permanent \/ ret[t].cause \in Permanent

\* C5: when the body of a retried operation raises a fatal error, the error is
\* raised to the caller at once: no backoff wait, no further invocation.
C5_FatalRaisedAtOnce ==
    [][FatalPending(MainThread) =>
         \/ UNCHANGED <<stack[MainThread], waits[MainThread]>>
         \/ /\ ~Running(MainThread)'
            /\ ret'[MainThread] = ret[MainThread]
            /\ waits'[MainThread] = waits[MainThread]]_vars

\* C6: parallel_upload and parallel_download never raise because of an item that
\* failed, whatever its failure: when the batch leaves its executor, every item has
\* run to its end, every failure has been logged, and no exception is pending.
C6_BatchAbsorbsFailures ==
    \A t \in Threads :
        Running(t) /\ Top(t).fn \in BatchOps /\ Top(t).pc = "shutdown"
        /\ (\A i \in 1..Len(futures) : futures[i].state = "done")
        => /\ Top(t).exc = ""
           /\ \A i \in 1..Len(futures) :
                 futures[i].result.kind = "raise" => futures[i].logged

\* verify_file_integrity is at a place of its with block, in the frame f
VerifyFrames == {f \in UNION {Range(stack[t]) : t \in Threads} :
                   f.fn = "verify_file_integrity"}

\* C7: when the local size differs from the remote size, verify_file_integrity
\* fails at once: it sends no checksum command, starts no fallback download and
\* compares no digests, so after the size comparison it is only ever leaving its
\* with block, with the fallback not taken.
C7_SizeMismatchFailsAtOnce ==
    \A f \in VerifyFrames :
        f.flag => /\ f.pc \in {"with_exit", "with_released", "after_with"}
                  /\ ~f.hit

\* C8: once verify_file_integrity has taken the fallback path, the temporary file
\* no longer exists when it is about to return or raise, whatever the outcome.
C8_TempFileRemoved ==
    \A f \in VerifyFrames :
        f.pc = "after_with" /\ f.hit => ~files[TempPath(f.path)].exists

\* move_file is somewhere in its with block, in the frame f
MoveFrames == {f \in UNION {Range(stack[t]) : t \in Threads} : f.fn = "move_file"}

\* what the server or the pool can make fail
ServerFailures == ErrorReplies \cup {"EOFError", "FTPConnectionError"}

\* C9: move_file with overwrite=False that has found a file of the same name in
\* the destination directory renames the source to a name with a timestamp, which
\* is not the original one, and leaves the file that was there: when it has left
\* its with block it has done so, unless the server failed it.
C9_RenamedWithTimestamp ==
    \A f \in MoveFrames :
        ~f.flag /\ f.hit /\ f.pc \in {"with_exit", "with_released", "after_with"}
        => \/ f.exc \in ServerFailures
           \/ /\ f.exc = ""
              /\ NewFileName(FileName, Timestamp) # FileName
              /\ NewFileName(FileName, Timestamp) \in remote.names
              /\ FileName \in remote.names

\* the result of download_file, as the retry wrapper receives it
DownloadReturned(t) ==
    /\ At(t, "retry", "returned") /\ Top(t).op = "download_file"
    /\ ret[t].kind # "none"

\* C10: download_file raises FTPTransferError whenever the local file it wrote
\* has zero bytes after the stream, also when the stream ended without an error:
\* it never returns normally with a zero-byte file.
C10_ZeroByteFails ==
    \A t \in Threads :
        /\ DownloadReturned(t)
        /\ files[Top(t).path].exists /\ files[Top(t).path].data = <<>>
        => ret[t].kind = "raise" /\ ret[t].exc = "FTPTransferError"

\* a stream of no chunks ended without an error, and the zero-size check raised
C10_Witness ==
    \E t \in Threads :
        /\ DownloadReturned(t)
        /\ files[Top(t).path].exists /\ files[Top(t).path].data = <<>>
        /\ ret[t].kind = "raise" /\ ret[t].cause = "FTPTransferError"

\* thread u has session s in its hands: a frame of it refers to s, or s is being
\* returned to it
InHands(u, s) == s \in Referred(u) \/ (ret[u].kind = "value" /\ ret[u].conn = s)

\* _release_connection has returned or raised to the with block of thread t
Released(t) == Running(t) /\ Top(t).pc = "with_released"

\* C11: _release_connection leaves no session open outside the pool: when it has
\* returned, the session it was given is idle in the pool, or is terminated (or
\* another thread has taken it from the pool since).
C11_ReleasedIsPooledOrClosed ==
    \A t \in Threads :
        Released(t) =>
            \/ Top(t).conn \in Range(connection_pool)
            \/ sess[Top(t).conn] # "open"
            \/ \E u \in Threads \ {t} : InHands(u, Top(t).conn)

\* C12: a failure of quit during release is not propagated: release always
\* completes normally, so that the with block is left with the outcome of its
\* body and no retry is caused by the release.
C12_ReleaseCompletesNormally ==
    \A t \in Threads : Released(t) => ret[t].kind # "raise"

\* a thread holds the lock while a NOOP probe, a session creation or a quit is
\* under way on it
NetworkCall(t) ==
    /\ Running(t)
    /\ \/ Top(t).fn = "_create_connection"
       \/ At(t, "_get_connection", "probe")
       \/ At(t, "_release_connection", "quit")

\* C14: the pool lock is never held across a network call: no thread holds
\* self.lock while it probes a session, creates one or terminates one.
C14_NoNetworkUnderLock ==
    \A t \in Threads : lock = t => ~NetworkCall(t)

\* C13: warming is bounded by capacity: whatever connect, acquire, release and
\* disconnect calls have been made, the pool holds no more than max_connections
\* sessions.
C13_WarmingWithinCapacity == ~(Len(connection_pool) > max_connections)

\* C15: every push to and pop from connection_pool is made by a thread that
\* holds self.lock: a step that changes the list is a step of the lock's holder.
C15_PoolMutatedUnderLock ==
    [][connection_pool' # connection_pool
         => lock # NoThread /\ stack'[lock] # stack[lock]]_vars

\* no batch is under way on the main thread
BatchOver == ~Running(MainThread) \/ Top(MainThread).fn \notin BatchOps

\* C16: parallel_upload and parallel_download return or raise only after every
\* submitted item has finished: once the batch is over, no item is pending or
\* running and no worker is at work.
C16_BatchEndsAfterItems ==
    BatchOver =>
        /\ \A i \in 1..Len(futures) : futures[i].state = "done"
        /\ \A w \in Threads \ {MainThread} : ~Running(w)

\* a batch of MaxItems items has raised the error of one of them
C16_Witness ==
    /\ ~Running(MainThread)
    /\ ret[MainThread].kind = "raise" /\ ret[MainThread].exc = "FTPConnectionError"
    /\ Len(futures) = MaxItems
    /\ \E i \in 1..Len(futures) : futures[i].result.kind = "value"

\* an attempt of upload_file or download_file with auto_release=True has left its
\* with block on thread t, having had a session
AttemptEnded(t) ==
    /\ Running(t) /\ Top(t).fn \in {"upload_file", "download_file"}
    /\ Top(t).pc = "after_with"
    /\ Top(t).auto_release /\ Top(t).conn # NoConn

\* C17: every attempt of upload_file and download_file with auto_release=True
\* releases the session it acquired, whether it succeeded or failed: when the
\* attempt ends its session is idle in the pool, or closed, or already in another
\* thread's hands; and no open session is left that is neither in the pool nor
\* in some thread's hands.
C17_AttemptReleasesSession ==
    /\ \A t \in Threads :
         AttemptEnded(t) =>
             \/ Top(t).conn \in Range(connection_pool)
             \/ sess[Top(t).conn] # "open"
             \/ \E u \in Threads \ {t} : InHands(u, Top(t).conn)
    /\ \A s \in Sessions :
         sess[s] = "open" /\ s \notin Range(connection_pool)
         => \E t \in Threads : InHands(t, s)

\* a failed attempt has ended, and its session is back in the pool
C17_Witness ==
    \E t \in Threads :
        /\ AttemptEnded(t) /\ Top(t).exc = "FTPTransferError"
        /\ Top(t).conn \in Range(connection_pool)
        /\ stack[t][2].attempt_number > 1

\* download_file is somewhere in its with block, in the frame f
DownloadFrames == {f \in UNION {Range(stack[t]) : t \in Threads} :
                     f.fn = "download_file"}
LeavingWith == {"with_exit", "with_released", "after_with"}

\* C18: download_file with a caller's progress sink writes every chunk it receives
\* to the local file and completes when the stream succeeds and is not empty: it
\* leaves its with block with the whole remote file written and no error, unless
\* the server failed it or the remote file is empty.
C18_SinkDownloadCompletes ==
    \A f \in DownloadFrames :
        f.flag /\ f.pc \in LeavingWith /\ f.conn # NoConn
        => \/ f.exc \in ServerFailures
           \/ f.exc = "FTPTransferError" /\ remote.data = <<>>
           \/ f.exc = "" /\ files[f.path].data = remote.data

\* C19: while download_file streams, a NOOP is sent on its session at a bounded
\* cadence: a stream of MaxChunks chunks does not end without a NOOP having been
\* sent on the session.
C19_KeepAliveWhileStreaming ==
    \A f \in DownloadFrames :
        f.pc = "check" /\ f.n >= MaxChunks => f.noops > 0

\* the sessions that are checked out: open, and not idle in the pool
CheckedOut == {s \in Sessions : sess[s] = "open" /\ s \notin Range(connection_pool)}

C21_RestartedNotResumed ==
    \A t \in Threads :
        DownloadReturned(t) /\ ret[t].kind = "value"
        => files[Top(t).path].data = remote.data

\* download_file returns normally from a later attempt, after an attempt that
\* failed when a part of the file had been written
C21_Witness ==
    \E t \in Threads :
        /\ DownloadReturned(t) /\ ret[t].kind = "value"
        /\ Top(t).attempt_number > 1
        /\ Len(files[Top(t).path].data) = MaxChunks

\* the sessions that are open on the server: idle in connection_pool or checked out
OpenSessions == {s \in Sessions : sess[s] = "open"}

\* C22: at every moment the number of open sessions, idle in connection_pool or
\* checked out by callers, is at most max_connections.
C22_OpenSessionsWithinCapacity == Cardinality(OpenSessions) <= max_connections

\* the operations that move_file calls inside its with block (347-361)
NestedInMove == {"directory_exists", "create_directory", "check_file_exists"}

\* the frame i of the thread t is a call made by a move_file(auto_release=True)
InsideReleasingMove(t, i) ==
    /\ stack[t][i].fn \in NestedInMove
    /\ \E j \in (i + 1)..Len(stack[t]) :
         stack[t][j].fn = "move_file" /\ stack[t][j].auto_release

\* C23: every session acquired during a move_file(auto_release=True), those of
\* its nested directory_exists, create_directory and check_file_exists calls
\* included, is back in connection_pool or closed when the call is over: once a
\* nested call has left its with block, after which nothing in move_file refers
\* to that session again, the session it acquired is idle in the pool or no
\* longer open.
C23_MoveLeavesNoSessionOut ==
    \A t \in Threads : \A i \in 1..Len(stack[t]) :
        /\ InsideReleasingMove(t, i)
        /\ stack[t][i].pc = "after_with"
        /\ stack[t][i].conn # NoConn
        => \/ stack[t][i].conn \in Range(connection_pool)
           \/ sess[stack[t][i].conn] # "open"

\* the transfers, whose retry loop is around the retry loop of _create_connection
Transfers == {"download_file", "upload_file"}

\* the retry loop of the thread's transfer is about to raise to the caller, and no
\* attempt of the call has obtained a session: the pool was empty and every
\* connection attempt failed
RefusedTransferRaises(t) ==
    /\ At(t, "retry", "returned") /\ Len(stack[t]) = 1
    /\ Top(t).op \in Transfers
    /\ ret[t].kind = "raise" /\ RetryStops(Top(t).attempt_number)
    /\ connects[t] # Served

\* C24: retries nest multiplicatively. A download_file or upload_file call whose
\* every connection attempt fails, on an empty pool, has made exactly 25 connection
\* attempts (5 transfer attempts of 5 connection attempts each) when it raises,
\* and the attempt counter of a retry loop never exceeds 5.
C24_RetriesNest ==
    /\ \A t \in Threads :
         RefusedTransferRaises(t)
         => connects[t] = StopMaxAttemptNumber * CreateStopMaxAttemptNumber
    /\ \A t \in Threads : \A i \in 1..Len(stack[t]) :
         /\ stack[t][i].fn = "retry" => stack[t][i].attempt_number <= StopMaxAttemptNumber
         /\ stack[t][i].fn = "_create_connection"
            => stack[t][i].attempt_number <= CreateStopMaxAttemptNumber

\* a transfer that was refused every session raises after its last attempt
C24_Witness ==
    \E t \in Threads :
        /\ RefusedTransferRaises(t)
        /\ connects[t] = 25
        /\ calls[t] = 5

\* ------------------------------------------------- progress of the pool
\* a thread that is inside _get_connection or _release_connection
InPoolCall(t) ==
    \E i \in 1..Len(stack[t]) :
        stack[t][i].fn \in {"_get_connection", "_release_connection"}

\* Every Transport call returns or raises and a thread that can run does run. A
\* thread blocked on self.lock can run whenever the lock is free, so a step of its
\* call into the pool that is possible again and again is taken (strong fairness,
\* which is what fair scheduling means for a thread that waits for a lock).
Fairness == \A t \in Threads : SF_vars(PoolStep(t))

\* the server closes a session that sits idle in the pool
DropIdle(s) == s \in Range(connection_pool) /\ Drop(s)

\* threads that call change_directory over and over on a pool of one session,
\* scheduled fairly, against a server that refuses logins and closes idle sessions
\* as it likes
InitLive ==
    /\ max_connections = 1
    /\ retry_attempts = StopMaxAttemptNumber
    /\ replies = {}
    /\ Constructed

NextLive ==
    \/ \E t \in Threads : PoolStep(t)
    \/ \E t \in Threads : CallChangeDirectory(t) \/ CommandBody(t) \/ CommandEnd(t)
    \/ \E s \in Sessions : DropIdle(s)

SpecLive == InitLive /\ [][NextLive]_vars /\ Fairness

\* move_file, which acquires sessions while it holds one, scheduled fairly
FairMove == SpecMove /\ Fairness

====
